---- MODULE Spec2Model ----
(***************************************************************************)
(* yamlfix: configuration resolution (yamlfix/config.py) and the command   *)
(* line entry point with its file discovery and environment scan           *)
(* (yamlfix/entrypoints/cli.py).                                           *)
(*                                                                         *)
(* Four specifications share the variables below:                          *)
(*   SpecEnv     _parse_env_vars_as_yamlfix_config                         *)
(*   SpecConfig  configure_yamlfix                                         *)
(*   SpecFind    _find_all_yaml_files                                      *)
(*   SpecCli     cli                                                       *)
(* A variable a specification does not use stays at Idle.                  *)
(***************************************************************************)
EXTENDS Integers, Sequences, FiniteSets, TLC

VARIABLES
    pc,                 \* position of the running function
    \* ---- _parse_env_vars_as_yamlfix_config
    environ,            \* os.environ: sequence of <<name, value>>, names distinct
    env_prefix,         \* --env-prefix as given on the command line
    additional_config,  \* the override mapping
    \* ---- configure_yamlfix
    config_files,       \* --config-file
    loaded,             \* what ProjectConfig loaded: [top |-> mapping, tool |-> tool.yamlfix mapping]
    schema_binds,       \* the schema projection sees the hoisted tool.yamlfix keys
    schema_fills,       \* the schema projection carries the defaults of unset attributes
    yamlfix_config,     \* the YamlfixConfig object (attribute |-> value)
    schema_config_dict, \* config.to_dict() after config.validate()
    fallback,           \* the branch of line 63 that was taken
    \* ---- _find_all_yaml_files and cli
    tree,               \* the file system: sequence of entries in scan order
    dir_,               \* root of one discovery
    include,            \* --include
    exclude,            \* --exclude
    found_files,        \* result of one discovery
    files,              \* positional arguments
    check,              \* --check
    all_excludes,
    real_files,
    cli_i,              \* loop index of the loops of cli
    files_to_fix,       \* the handles handed to the formatter
    open_handles,       \* handles cli opened that are not closed
    changed,            \* the formatter's changed flag
    effects             \* what the run did: subset of {"configure","glob","open","fix"}

vars == <<pc, environ, env_prefix, additional_config, config_files, loaded,
          schema_binds, schema_fills, yamlfix_config, schema_config_dict, fallback,
          tree, dir_, include, exclude, found_files, files, check, all_excludes,
          real_files, cli_i, files_to_fix, open_handles, changed, effects>>

envVars  == <<environ, env_prefix>>
confVars == <<config_files, loaded, schema_binds, schema_fills, schema_config_dict, fallback>>
findVars == <<dir_, found_files>>
cliVars  == <<files, check, all_excludes, real_files, cli_i, files_to_fix, open_handles, changed,
             effects>>

Idle == "idle"

(***************************************************************************)
(* Generic helpers                                                         *)
(***************************************************************************)
Range(s) == {s[i] : i \in 1..Len(s)}

SeqsUpTo(S, n) == UNION {[1..k -> S] : k \in 0..n}

\* dict.update / repeated d[k] = v: g's entries over f's
Merge(f, g) == [k \in (DOMAIN f) \cup (DOMAIN g) |-> IF k \in DOMAIN g THEN g[k] ELSE f[k]]

EmptyDict == << >>

\* all mappings that give some of the keys of choices (key |-> set of values) a value
PartialMaps(choices) ==
    UNION {[D -> UNION {choices[k] : k \in D}] : D \in SUBSET (DOMAIN choices)}

WellTyped(m, choices) == \A k \in DOMAIN m : m[k] \in choices[k]

(***************************************************************************)
(* _parse_env_vars_as_yamlfix_config (cli.py 158-168).  Names are          *)
(* sequences of characters so that prefix and delimiter are compared the   *)
(* way the code compares them.                                             *)
(***************************************************************************)
MaxNameLen == 3
MaxPrefixLen == 1
MaxEnvVars == 2

Chars == {"y", "Y", "k", "_"}
PrefixChars == {"y", "Y"}
EnvVals == {"1", "100"}

\* str.lower on one character
LowerChar(c) == CASE c = "Y" -> "y" [] OTHER -> c

\* str.lower
Lower(s) == [i \in 1..Len(s) |-> LowerChar(s[i])]

\* str.startswith
StartsWith(s, p) == Len(s) >= Len(p) /\ SubSeq(s, 1, Len(p)) = p

\* s[n:]
Slice(s, n) == SubSeq(s, n + 1, Len(s))

\* the test of line 165
EnvKeyMatches(sanitized_key, prefix) ==
    /\ StartsWith(sanitized_key, prefix)
    /\ Len(sanitized_key) > Len(prefix) + 1

\* the loop of lines 162-166 over the first n variables
RECURSIVE ParseEnvLoop(_, _, _)
ParseEnvLoop(env, prefix, n) ==
    IF n = 0 THEN EmptyDict
    ELSE LET acc == ParseEnvLoop(env, prefix, n - 1)
             sanitized_key == Lower(env[n][1])
         IN IF EnvKeyMatches(sanitized_key, prefix)
            THEN Merge(acc, [k \in {Slice(sanitized_key, Len(prefix) + 1)} |-> env[n][2]])
            ELSE acc

parse_env_vars_as_yamlfix_config(env, prefix) == ParseEnvLoop(env, prefix, Len(env))

EnvNames == SeqsUpTo(Chars, MaxNameLen) \ {<< >>}
EnvPrefixes == SeqsUpTo(PrefixChars, MaxPrefixLen) \ {<< >>}

Environs ==
    {e \in SeqsUpTo(EnvNames \X EnvVals, MaxEnvVars) :
        \A i, j \in 1..Len(e) : i # j => e[i][1] # e[j][1]}

(***************************************************************************)
(* Configuration values.  A value is a sequence of strings whose head is   *)
(* its Python type: <<"int","100">>, <<"str","100">>, <<"list","a","b">>,  *)
(* <<"none">>.                                                             *)
(***************************************************************************)
None == <<"none">>

\* bool(value)
Truthy(v) == v \notin {None, <<"list">>, <<"str", "">>, <<"int", "0">>}

\* dict.get(key), None when absent
Get(d, k) == IF k \in DOMAIN d THEN d[k] ELSE None

\* attributes of YamlfixConfig: hasattr(yamlfix_config, key)
Attrs == {"exclude_dirs", "line_length"}

hasattr(k) == k \in Attrs

\* the built-in defaults of YamlfixConfig
Default == [k \in Attrs |-> IF k = "exclude_dirs" THEN <<"list">> ELSE <<"int", "80">>]

\* conversion of a supplied value to the attribute's declared type
Coerce(k, v) ==
    IF v[1] # "str" THEN v
    ELSE IF k = "line_length" THEN <<"int", v[2]>>
    ELSE IF k = "exclude_dirs" THEN <<"list", v[2]>>
    ELSE v

\* values a configuration file can give a key
FileChoices ==
    [k \in {"exclude_dirs", "line_length", "color"} |->
        CASE k = "exclude_dirs" -> {<<"list">>, <<"list", "a.*", "b.*">>, <<"list", "sub">>}
          [] k = "line_length"  -> {<<"int", "100">>}
          [] OTHER              -> {<<"str", "red">>}]

\* values the override mapping can give a key: always strings
OverrideChoices ==
    [k \in {"exclude_dirs", "line_length", "color"} |->
        CASE k = "exclude_dirs" -> {<<"str", "c.*">>}
          [] k = "line_length"  -> {<<"str", "120">>}
          [] OTHER              -> {<<"str", "blue">>}]

FileMaps == {m \in PartialMaps(FileChoices) : WellTyped(m, FileChoices)}
OverrideMaps == {m \in PartialMaps(OverrideChoices) : WellTyped(m, OverrideChoices)}

(***************************************************************************)
(* configure_yamlfix (config.py 14-77)                                     *)
(***************************************************************************)
\* lines 44-45: config_dict.get("tool", {}).get("yamlfix", {})
YamlfixSection(ld) == ld.tool

\* lines 46-50: the section's keys are written over the raw mapping
Hoisted(ld) ==
    IF YamlfixSection(ld) # EmptyDict THEN Merge(ld.top, YamlfixSection(ld)) ELSE ld.top

\* lines 52-54: the overrides are written over the raw mapping
WithOverrides(d, overrides) ==
    IF overrides # EmptyDict THEN Merge(d, overrides) ELSE d

\* lines 56-59: config.validate() and config.to_dict().  The schema binding
\* either reads the mapping with the hoisted section (binds) or drops the
\* section; it either fills the defaults of unset attributes (fills) or not.
SchemaProjection(ld, overrides, binds, fills) ==
    LET visible  == IF binds THEN WithOverrides(Hoisted(ld), overrides)
                    ELSE WithOverrides(ld.top, overrides)
        supplied == [k \in (DOMAIN visible) \cap Attrs |-> Coerce(k, visible[k])]
    IN IF fills THEN Merge(Default, supplied) ELSE supplied

\* line 63 testing for the key instead of the value
UsesManualExtractionKeyAbsent(section, schema) ==
    section # EmptyDict /\ "exclude_dirs" \notin DOMAIN schema

\* line 63: the manual extraction is used
UsesManualExtraction(section, schema) ==
    section # EmptyDict /\ ~Truthy(Get(schema, "exclude_dirs"))

\* lines 63-70 writing the section in both branches
FinalConfigDictAlwaysManual(section, schema) ==
    Merge(schema, [k \in {x \in DOMAIN section : hasattr(x)} |-> section[k]])

\* lines 63-70: the final config_dict
FinalConfigDict(section, schema) ==
    IF UsesManualExtraction(section, schema)
    THEN Merge(schema, [k \in {x \in DOMAIN section : hasattr(x)} |-> section[k]])
    ELSE schema

\* lines 74-77 looping over the attributes instead of the keys
AssignedEveryAttribute(model, config_dict) ==
    [k \in Attrs |-> Get(config_dict, k)]

\* lines 74-77: setattr for each key that is an attribute
Assigned(model, config_dict) ==
    Merge(model, [k \in {x \in DOMAIN config_dict : hasattr(x)} |-> config_dict[k]])

\* the object configure_yamlfix leaves behind
configure_yamlfix(model, ld, overrides, binds, fills) ==
    Assigned(model, FinalConfigDict(YamlfixSection(ld),
                                    SchemaProjection(ld, overrides, binds, fills)))

\* The mapping ProjectConfig loads is an input: with no source file given it
\* is what the search from the starting path finds.  Lines 21-30 only choose
\* that starting path, so they show in the model as the choice of loaded.
ConfInit ==
    /\ config_files \in {<< >>, <<"cfg.toml">>}
    /\ loaded \in [top : FileMaps, tool : FileMaps]
    /\ additional_config \in OverrideMaps
    /\ schema_binds \in BOOLEAN
    /\ schema_fills \in BOOLEAN
    /\ yamlfix_config = Default
    /\ schema_config_dict = Idle
    /\ fallback = Idle

\* the whole of configure_yamlfix
Configure ==
    /\ pc = "configure_yamlfix"
    /\ LET section == YamlfixSection(loaded)
           schema  == SchemaProjection(loaded, additional_config, schema_binds, schema_fills)
       IN /\ schema_config_dict' = schema
          /\ fallback' = UsesManualExtraction(section, schema)
    /\ yamlfix_config' = configure_yamlfix(yamlfix_config, loaded, additional_config,
                                           schema_binds, schema_fills)
    /\ pc' = "configured"
    /\ UNCHANGED <<config_files, loaded, additional_config, schema_binds, schema_fills>>
    /\ UNCHANGED <<envVars, tree, include, exclude, findVars, cliVars>>

(***************************************************************************)
(* The file system and pathlib.  A path is a sequence of names; a glob is  *)
(* a string, read as a sequence of segments.                               *)
(***************************************************************************)
\* a name split at its dot: <<stem, suffix>>, or <<name>> without a dot
NameParts(n) ==
    CASE n = "a.yaml" -> <<"a", "yaml">>
      [] n = "e.yaml" -> <<"e", "yaml">>
      [] n = "b.yml"  -> <<"b", "yml">>
      [] n = "d.yml"  -> <<"d", "yml">>
      [] n = "c.txt"  -> <<"c", "txt">>
      [] n = "missing.yaml" -> <<"missing", "yaml">>
      [] OTHER        -> <<n>>

\* a glob split at "/" and each segment at its dot; "" has no segment
GlobSegments(g) ==
    CASE g = "*.yaml"     -> << <<"*", "yaml">> >>
      [] g = "*.yml"      -> << <<"*", "yml">> >>
      [] g = "a.*"        -> << <<"a", "*">> >>
      [] g = "b.*"        -> << <<"b", "*">> >>
      [] g = "c.*"        -> << <<"c", "*">> >>
      [] g = "sub/*.yaml" -> << <<"sub">>, <<"*", "yaml">> >>
      [] g = "sub"        -> << <<"sub">> >>
      [] g = "*"          -> << <<"*">> >>
      [] OTHER            -> << >>

\* fnmatch of one path component against one glob segment
SegMatch(seg, name) ==
    LET np == NameParts(name)
    IN IF seg = <<"*">> THEN TRUE
       ELSE IF Len(seg) = 1 THEN np = seg
       ELSE /\ Len(np) = 2
            /\ seg[1] \in {"*", np[1]}
            /\ seg[2] \in {"*", np[2]}

R == <<"R">>
Sub == <<"R", "sub">>

Entry(p, k) == [path |-> p, kind |-> k]

\* the tree of the spec's discovery examples
FlatTree ==
    << Entry(R, "dir"),
       Entry(<<"R", "a.yaml">>, "file"),
       Entry(<<"R", "b.yml">>, "file"),
       Entry(<<"R", "c.txt">>, "file") >>

\* the same with a subdirectory, a broken symlink and a directory named like a yaml file
DeepTree ==
    << Entry(R, "dir"),
       Entry(<<"R", "a.yaml">>, "file"),
       Entry(<<"R", "b.yml">>, "file"),
       Entry(<<"R", "c.txt">>, "file"),
       Entry(<<"R", "e.yaml">>, "broken"),
       Entry(Sub, "dir"),
       Entry(<<"R", "sub", "a.yaml">>, "file"),
       Entry(<<"R", "sub", "d.yml">>, "file"),
       Entry(<<"R", "sub", "e.yaml">>, "dir") >>

Trees == {FlatTree, DeepTree}

KindOf(t, p) ==
    IF \E i \in 1..Len(t) : t[i].path = p
    THEN (CHOOSE e \in Range(t) : e.path = p).kind
    ELSE "missing"

\* Path.is_dir
is_dir(t, p) == KindOf(t, p) = "dir"

\* os.path.isfile
isfile(t, p) == KindOf(t, p) = "file"

Dirs(t) == {e.path : e \in {x \in Range(t) : x.kind = "dir"}}

\* p lies below d
Below(d, p) == Len(p) > Len(d) /\ SubSeq(p, 1, Len(d)) = d

\* the last Len(segs) components of p match segs
TailMatches(segs, p) ==
    /\ Len(p) >= Len(segs)
    /\ \A i \in 1..Len(segs) : SegMatch(segs[i], p[Len(p) - Len(segs) + i])

\* Path.glob: the pattern is matched from dir_ down, one component per segment
GlobPaths(t, d, g) ==
    LET segs == GlobSegments(g)
        Hit(e) == /\ Below(d, e.path)
                  /\ Len(e.path) = Len(d) + Len(segs)
                  /\ TailMatches(segs, e.path)
        hits == SelectSeq(t, Hit)
    IN [i \in 1..Len(hits) |-> hits[i].path]

\* Path.rglob: the pattern is matched at any depth below dir_
RGlobPaths(t, d, g) ==
    LET segs == GlobSegments(g)
        Hit(e) == /\ Below(d, e.path)
                  /\ Len(e.path) >= Len(d) + Len(segs)
                  /\ TailMatches(segs, e.path)
        hits == SelectSeq(t, Hit)
    IN [i \in 1..Len(hits) |-> hits[i].path]

(***************************************************************************)
(* _matches_any_glob and _find_all_yaml_files (cli.py 20-36)               *)
(***************************************************************************)
\* line 23 with rglob in place of glob
matches_any_rglob(t, file_to_test, d, globs) ==
    \E i \in 1..Len(globs) :
        /\ globs[i] # ""
        /\ file_to_test \in Range(RGlobPaths(t, d, globs[i]))

\* line 23
matches_any_glob(t, file_to_test, d, globs) ==
    \E i \in 1..Len(globs) :
        /\ globs[i] # ""
        /\ file_to_test \in Range(GlobPaths(t, d, globs[i]))

\* lines 28-31: include_files after the first n include globs
RECURSIVE IncludeFiles(_, _, _, _)
IncludeFiles(t, d, include_globs, n) ==
    IF n = 0 THEN << >>
    ELSE IncludeFiles(t, d, include_globs, n - 1)
         \o (IF include_globs[n] # "" THEN RGlobPaths(t, d, include_globs[n]) ELSE << >>)

\* lines 32-36
find_all_yaml_files(t, d, include_globs, exclude_globs) ==
    LET Keep(file) == ~matches_any_glob(t, file, d, exclude_globs) /\ isfile(t, file)
    IN SelectSeq(IncludeFiles(t, d, include_globs, Len(include_globs)), Keep)

MaxInclude == 2
MaxExclude == 2
IncludeGlobs == {"*.yaml", "*.yml", "a.*", ""}
ExcludeGlobs == {"b.*", "*.yaml", "sub/*.yaml", ""}

FindInit ==
    /\ tree \in Trees
    /\ dir_ \in Dirs(tree)
    /\ include \in SeqsUpTo(IncludeGlobs, MaxInclude)
    /\ exclude \in SeqsUpTo(ExcludeGlobs, MaxExclude)
    /\ found_files = << >>

\* one call of _find_all_yaml_files
Find ==
    /\ pc = "find_all_yaml_files"
    /\ found_files' = find_all_yaml_files(tree, dir_, include, exclude)
    /\ pc' = "found"
    /\ UNCHANGED <<tree, dir_, include, exclude>>
    /\ UNCHANGED <<envVars, additional_config, confVars, yamlfix_config, cliVars>>

(***************************************************************************)
(* cli (cli.py 80-155)                                                     *)
(***************************************************************************)
MaxFiles == 2

Stdin == <<"-">>

\* positional arguments: stdin, directories, files, a path that does not exist
Positionals ==
    {Stdin, R, Sub, <<"R", "a.yaml">>, <<"R", "c.txt">>, <<"R", "missing.yaml">>}

CliIncludes == {<<"*.yaml", "*.yml">>, <<"*.yaml", "a.*">>, <<"*.yml">>}
CliExcludes == {<< >>, <<"c.*">>, <<"a.*">>}
CliSections == {EmptyDict, [k \in {"exclude_dirs"} |-> <<"list", "b.*">>]}

ExitStates == {"raised", "exit0", "exit1", "returned"}

\* line 99 with the length test off by one
StdinWithTwoOthers(fs) == Stdin \in Range(fs) /\ Len(fs) > 2

\* lines 98-100: '-' together with other arguments
StdinWithOthers(fs) == Stdin \in Range(fs) /\ Len(fs) > 1

\* lines 131-132 with the exclude globs applied to the path in its directory
ExplicitFileFiltered(t, provided_file, include_globs, exclude_globs) ==
    IF matches_any_glob(t, provided_file, SubSeq(provided_file, 1, Len(provided_file) - 1),
                        exclude_globs)
    THEN << >>
    ELSE <<provided_file>>

\* lines 131-132: what a positional path that is no directory adds to real_files
ExplicitFile(t, provided_file, include_globs, exclude_globs) == <<provided_file>>

\* lines 114-116
AllExcludes(cli_exclude, model) ==
    cli_exclude \o (IF Truthy(model["exclude_dirs"]) THEN Tail(model["exclude_dirs"]) ELSE << >>)

CliInit ==
    /\ tree = DeepTree
    /\ files \in SeqsUpTo(Positionals, MaxFiles) \ {<< >>}
    /\ include \in CliIncludes
    /\ exclude \in CliExcludes
    /\ check \in BOOLEAN
    /\ config_files = << >>
    /\ loaded \in [top : {EmptyDict}, tool : CliSections]
    /\ additional_config = EmptyDict
    /\ schema_binds \in BOOLEAN
    /\ schema_fills = TRUE
    /\ yamlfix_config = Idle
    /\ all_excludes = << >>
    /\ real_files = << >>
    /\ cli_i = 1
    /\ files_to_fix = << >>
    /\ open_handles = {}
    /\ changed = FALSE
    /\ effects = {}

cliInputs == <<tree, files, include, exclude, check, config_files, loaded, additional_config,
               schema_binds, schema_fills>>
cliOther == <<envVars, schema_config_dict, fallback, findVars>>

\* lines 97-102
CliStdinCheck ==
    /\ pc = "cli"
    /\ IF Stdin \in Range(files)
       THEN IF StdinWithOthers(files)
            THEN pc' = "raised" /\ UNCHANGED files_to_fix
            ELSE pc' = "check_empty" /\ files_to_fix' = <<"sys.stdin">>
       ELSE pc' = "load_config" /\ UNCHANGED files_to_fix
    /\ UNCHANGED <<yamlfix_config, all_excludes, real_files, cli_i, open_handles, changed,
                   effects>>
    /\ UNCHANGED <<cliInputs, cliOther>>

\* lines 104-119
CliConfigure ==
    /\ pc = "load_config"
    /\ LET config == configure_yamlfix(Default, loaded, additional_config,
                                       schema_binds, schema_fills)
       IN /\ yamlfix_config' = config
          /\ all_excludes' = AllExcludes(exclude, config)
    /\ effects' = effects \cup {"configure"}
    /\ pc' = "discover"
    /\ UNCHANGED <<real_files, cli_i, files_to_fix, open_handles, changed>>
    /\ UNCHANGED <<cliInputs, cliOther>>

\* lines 123-132: one round of the loop over the positional paths
CliDiscover ==
    /\ pc = "discover"
    /\ LET provided_file == files[cli_i]
       IN IF is_dir(tree, provided_file)
          THEN /\ real_files' = real_files
                      \o find_all_yaml_files(tree, provided_file, include, all_excludes)
               /\ effects' = effects \cup {"glob"}
          ELSE /\ real_files' = real_files
                      \o ExplicitFile(tree, provided_file, include, all_excludes)
               /\ UNCHANGED effects
    /\ IF cli_i = Len(files)
       THEN pc' = "open" /\ cli_i' = 1
       ELSE pc' = "discover" /\ cli_i' = cli_i + 1
    /\ UNCHANGED <<yamlfix_config, all_excludes, files_to_fix, open_handles, changed>>
    /\ UNCHANGED <<cliInputs, cliOther>>

\* line 133: one file.open("r+") of the list comprehension; the handle is
\* its place in real_files.  A path that is no regular file cannot be opened.
CliOpen ==
    /\ pc = "open"
    /\ cli_i <= Len(real_files)
    /\ effects' = effects \cup {"open"}
    /\ IF isfile(tree, real_files[cli_i])
       THEN /\ open_handles' = open_handles \cup {cli_i}
            /\ cli_i' = cli_i + 1
            /\ pc' = "open"
       ELSE /\ pc' = "raised"
            /\ UNCHANGED <<open_handles, cli_i>>
    /\ UNCHANGED <<yamlfix_config, all_excludes, real_files, files_to_fix, changed>>
    /\ UNCHANGED <<cliInputs, cliOther>>

\* line 133: the comprehension is complete and bound to files_to_fix
CliOpened ==
    /\ pc = "open"
    /\ cli_i > Len(real_files)
    /\ files_to_fix' = [i \in 1..Len(real_files) |-> i]
    /\ pc' = "check_empty"
    /\ UNCHANGED <<yamlfix_config, all_excludes, real_files, cli_i, open_handles, changed,
                   effects>>
    /\ UNCHANGED <<cliInputs, cliOther>>

\* lines 134-145
CliCheckEmpty ==
    /\ pc = "check_empty"
    /\ IF files_to_fix = << >>
       THEN pc' = "exit0" /\ UNCHANGED <<yamlfix_config, effects>>
       ELSE /\ pc' = "fix"
            /\ IF "configure" \notin effects
               THEN /\ yamlfix_config' = configure_yamlfix(Default, loaded, additional_config,
                                                           schema_binds, schema_fills)
                    /\ effects' = effects \cup {"configure"}
               ELSE UNCHANGED <<yamlfix_config, effects>>
    /\ UNCHANGED <<all_excludes, real_files, cli_i, files_to_fix, open_handles, changed>>
    /\ UNCHANGED <<cliInputs, cliOther>>

\* line 147: services.fix_files returns
CliFixReturns ==
    /\ pc = "fix"
    /\ changed' \in BOOLEAN
    /\ effects' = effects \cup {"fix"}
    /\ pc' = "close"
    /\ UNCHANGED <<yamlfix_config, all_excludes, real_files, cli_i, files_to_fix, open_handles>>
    /\ UNCHANGED <<cliInputs, cliOther>>

\* line 147: services.fix_files raises
CliFixRaises ==
    /\ pc = "fix"
    /\ effects' = effects \cup {"fix"}
    /\ pc' = "raised"
    /\ UNCHANGED <<yamlfix_config, all_excludes, real_files, cli_i, files_to_fix, open_handles,
                   changed>>
    /\ UNCHANGED <<cliInputs, cliOther>>

\* lines 148-155
CliClose ==
    /\ pc = "close"
    /\ open_handles' = open_handles \ Range(files_to_fix)
    /\ pc' = IF changed /\ check THEN "exit1" ELSE "returned"
    /\ UNCHANGED <<yamlfix_config, all_excludes, real_files, cli_i, files_to_fix, changed,
                   effects>>
    /\ UNCHANGED <<cliInputs, cliOther>>

(***************************************************************************)
(* The environment scan as a step                                          *)
(***************************************************************************)
EnvInit ==
    /\ environ \in Environs
    /\ env_prefix \in EnvPrefixes
    /\ additional_config = EmptyDict

\* cli.py 108: the prefix is lower-cased by the caller
ParseEnv ==
    /\ pc = "parse_env_vars"
    /\ additional_config' = parse_env_vars_as_yamlfix_config(environ, Lower(env_prefix))
    /\ pc' = "parsed"
    /\ UNCHANGED <<envVars, confVars, yamlfix_config, tree, include, exclude, findVars, cliVars>>

(***************************************************************************)
(* Specifications                                                          *)
(***************************************************************************)
IdleEnv  == environ = Idle /\ env_prefix = Idle
IdleConf == /\ config_files = Idle /\ loaded = Idle /\ schema_binds = Idle
            /\ schema_fills = Idle /\ schema_config_dict = Idle /\ fallback = Idle
IdleFind == dir_ = Idle /\ found_files = Idle
IdleFs   == tree = Idle /\ include = Idle /\ exclude = Idle
IdleCli  == /\ files = Idle /\ check = Idle /\ all_excludes = Idle /\ real_files = Idle
            /\ cli_i = Idle /\ files_to_fix = Idle /\ open_handles = Idle
            /\ changed = Idle /\ effects = Idle

InitEnv ==
    /\ pc = "parse_env_vars"
    /\ EnvInit
    /\ IdleConf /\ yamlfix_config = Idle /\ IdleFs /\ IdleFind /\ IdleCli

InitConfig ==
    /\ pc = "configure_yamlfix"
    /\ ConfInit
    /\ IdleEnv /\ IdleFs /\ IdleFind /\ IdleCli

InitFind ==
    /\ pc = "find_all_yaml_files"
    /\ FindInit
    /\ IdleEnv /\ additional_config = Idle /\ IdleConf /\ yamlfix_config = Idle /\ IdleCli

InitCli ==
    /\ pc = "cli"
    /\ CliInit
    /\ IdleEnv /\ schema_config_dict = Idle /\ fallback = Idle /\ IdleFind

NextEnv == ParseEnv
NextConfig == Configure
NextFind == Find
NextCli ==
    \/ CliStdinCheck
    \/ CliConfigure
    \/ CliDiscover
    \/ CliOpen
    \/ CliOpened
    \/ CliCheckEmpty
    \/ CliFixReturns
    \/ CliFixRaises
    \/ CliClose

SpecEnv == InitEnv /\ [][NextEnv]_vars
SpecConfig == InitConfig /\ [][NextConfig]_vars
SpecFind == InitFind /\ [][NextFind]_vars
SpecCli == InitCli /\ [][NextCli]_vars

Init == InitCli
Next == NextCli
Spec == SpecCli

(***************************************************************************)
(* Properties                                                              *)
(***************************************************************************)
\* the attribute keys of a mapping
AttrKeys(d) == {k \in DOMAIN d : k \in Attrs}

\* C1: after configure_yamlfix every model attribute named by a key of the
\* override mapping holds the override's value (converted to the attribute's
\* type), never the file-sourced value of that name.
C1_OverrideWins ==
    pc = "configured" =>
        \A k \in AttrKeys(additional_config) :
            yamlfix_config[k] = Coerce(k, additional_config[k])

\* a non-empty tool.yamlfix.exclude_dirs, no top-level exclude_dirs, no override of it
C2_Pre ==
    /\ pc = "configured"
    /\ "exclude_dirs" \in DOMAIN loaded.tool
    /\ Truthy(loaded.tool["exclude_dirs"])
    /\ "exclude_dirs" \notin DOMAIN loaded.top
    /\ "exclude_dirs" \notin DOMAIN additional_config

\* C2: with tool.yamlfix.exclude_dirs = [a, b], no top-level exclude_dirs and
\* no override of it, model.exclude_dirs is [a, b] after configure_yamlfix,
\* whether or not the schema projection carries the hoisted value.
C2_HoistedExcludeDirs ==
    C2_Pre => yamlfix_config["exclude_dirs"] = loaded.tool["exclude_dirs"]

\* C2 on the path where the schema projection dropped the section
C2_Witness ==
    /\ C2_Pre
    /\ loaded.tool["exclude_dirs"] = <<"list", "a.*", "b.*">>
    /\ ~schema_binds
    /\ Get(schema_config_dict, "exclude_dirs") # <<"list", "a.*", "b.*">>
    /\ yamlfix_config["exclude_dirs"] = <<"list", "a.*", "b.*">>

\* C3: every exit of cli leaves no handle it opened still open.
C3_HandlesClosedOnExit ==
    pc \in ExitStates => open_handles = {}

\* C4: the candidate file list holds no path twice.
C4_NoDuplicateCandidates ==
    \A i, j \in 1..Len(real_files) : i # j => real_files[i] # real_files[j]

\* name is P, then "_", then a non-empty KEY, compared case-insensitively
C5_HasForm(name, P) ==
    /\ Len(name) > Len(P) + 1
    /\ Lower(SubSeq(name, 1, Len(P))) = Lower(P)
    /\ name[Len(P) + 1] = "_"

C5_Key(name, P) == Lower(SubSeq(name, Len(P) + 2, Len(name)))

\* C5: the override mapping has an entry for exactly the variables named
\* P_KEY (case-insensitively, KEY non-empty), keyed by KEY lower-cased with the
\* variable's value; any other variable contributes no entry.
C5_ExactlyDelimitedVariables ==
    pc = "parsed" =>
        LET formed == {i \in 1..Len(environ) : C5_HasForm(environ[i][1], env_prefix)}
        IN /\ DOMAIN additional_config = {C5_Key(environ[i][1], env_prefix) : i \in formed}
           /\ \A k \in DOMAIN additional_config :
                \E i \in formed : /\ C5_Key(environ[i][1], env_prefix) = k
                                  /\ additional_config[k] = environ[i][2]

\* the components of p below d
C6_Rel(d, p) == SubSeq(p, Len(d) + 1, Len(p))

\* rel ends with components matching the glob, at any depth
C6_Included(rel, g) ==
    LET segs == GlobSegments(g)
    IN /\ g # ""
       /\ \E k \in 0..Len(rel) :
            /\ k + Len(segs) = Len(rel)
            /\ \A j \in 1..Len(segs) : SegMatch(segs[j], rel[k + j])

\* rel is matched by the glob evaluated at the root, component for component
C6_Excluded(rel, g) ==
    LET segs == GlobSegments(g)
    IN /\ g # ""
       /\ Len(rel) = Len(segs)
       /\ \A j \in 1..Len(segs) : SegMatch(segs[j], rel[j])

C6_Expected ==
    {e.path : e \in
        {x \in Range(tree) :
            /\ Below(dir_, x.path)
            /\ x.kind = "file"
            /\ \E i \in 1..Len(include) : C6_Included(C6_Rel(dir_, x.path), include[i])
            /\ ~\E i \in 1..Len(exclude) : C6_Excluded(C6_Rel(dir_, x.path), exclude[i])}}

C6_ExampleRoot == tree = FlatTree /\ dir_ = R /\ include = <<"*.yaml", "*.yml">>

\* C6: for a directory root the result is exactly the regular files at any
\* depth that match an include glob and are in no exclude glob's root-relative
\* path set; for R = {a.yaml, b.yml, c.txt} with include [*.yaml, *.yml],
\* exclude [] gives {a.yaml, b.yml} and exclude [b.*] gives {a.yaml}.
C6_FindExactly ==
    pc = "found" =>
        /\ Range(found_files) = C6_Expected
        /\ (C6_ExampleRoot /\ exclude = << >>)
              => Range(found_files) = {<<"R", "a.yaml">>, <<"R", "b.yml">>}
        /\ (C6_ExampleRoot /\ exclude = <<"b.*">>)
              => Range(found_files) = {<<"R", "a.yaml">>}

C6_Witness ==
    /\ pc = "found"
    /\ C6_ExampleRoot
    /\ exclude = <<"b.*">>
    /\ found_files = << <<"R", "a.yaml">> >>

\* discovery of a run that does not read stdin is complete
C7_Discovered ==
    /\ Stdin \notin Range(files)
    /\ pc \notin {"cli", "load_config", "discover"}

\* C7: every positional path that is no directory is in the candidate list,
\* whatever the include globs, the exclude globs and exclude_dirs are.
C7_ExplicitFilesKept ==
    C7_Discovered =>
        \A i \in 1..Len(files) :
            ~is_dir(tree, files[i]) => files[i] \in Range(real_files)

\* c.txt given explicitly, matching no include glob and the exclude glob c.*
C7_Witness ==
    /\ C7_Discovered
    /\ <<"R", "c.txt">> \in Range(files)
    /\ "c.*" \in Range(all_excludes)
    /\ \A i \in 1..Len(include) : ~C6_Included(<<"c.txt">>, include[i])
    /\ <<"R", "c.txt">> \in Range(real_files)

\* C8: '-' with another argument raises before any configuration, globbing,
\* opening and formatting.
C8_StdinWithOthersRaisesFirst ==
    (Stdin \in Range(files) /\ Len(files) > 1) =>
        /\ pc \in {"cli", "raised"}
        /\ effects = {}
        /\ open_handles = {}
        /\ files_to_fix = << >>

C8_Witness ==
    /\ pc = "raised"
    /\ Stdin \in Range(files)
    /\ Len(files) > 1
    /\ effects = {}

C9_Pre ==
    /\ pc = "configured"
    /\ config_files = << >>
    /\ additional_config = EmptyDict
    /\ loaded.top = EmptyDict
    /\ loaded.tool = EmptyDict

C10_FallbackOnlyWhenKeyAbsent ==
    pc = "configured" =>
        LET absent == loaded.tool # EmptyDict /\ "exclude_dirs" \notin DOMAIN schema_config_dict
        IN /\ fallback => absent
           /\ ~absent => yamlfix_config = Merge(Default, schema_config_dict)

\* C10: the fallback is taken exactly when the section is non-empty and the
\* projection's exclude_dirs is absent or empty; then the section's attribute
\* values are assigned over the projection's, and otherwise every assigned
\* value is the projection's.
C10_FallbackWhenExcludeDirsFalsy ==
    pc = "configured" =>
        LET falsy == loaded.tool # EmptyDict /\ ~Truthy(Get(schema_config_dict, "exclude_dirs"))
            manual == [k \in AttrKeys(loaded.tool) |-> loaded.tool[k]]
        IN IF falsy
           THEN fallback /\ yamlfix_config = Merge(Merge(Default, schema_config_dict), manual)
           ELSE ~fallback /\ yamlfix_config = Merge(Default, schema_config_dict)

\* the projection has the key exclude_dirs, and a section value was assigned all the same
C10_Witness ==
    /\ pc = "configured"
    /\ fallback
    /\ "exclude_dirs" \in DOMAIN schema_config_dict
    /\ yamlfix_config # Merge(Default, schema_config_dict)
====
